---- MODULE Spec2Model ----
(***************************************************************************)
(* A model of rmrl/document.py: DocumentPage (construction, get_layers,    *)
(* load_layers, render_to_painter) and DocumentPageLayer (paint_strokes,   *)
(* render_to_painter, get_grouped_annotations).                            *)
(*                                                                         *)
(* Each part of the file is a small state machine over its own variables;  *)
(* a specification runs one of them and keeps the others idle.             *)
(***************************************************************************)
EXTENDS Integers, Sequences, FiniteSets, TLC

VARIABLES
    \* DocumentPage.get_layers (lines 114-165)
    blocks,            \* the block stream read_blocks(source) yields
    gl_pc,             \* "idle" | "scan" | "done"
    gl_i,              \* index of the next block of the for loop
    layers,            \* local `layers`
    current_layer,     \* local `current_layer`
    current_strokes,   \* local `current_strokes`
    gl_result,         \* the returned list
    \* DocumentPageLayer.get_grouped_annotations (lines 286-336)
    annot_paths,       \* self.annot_paths: the shapes accumulated on the layer
    cl_pc,             \* "idle" | "run" | "done"
    pathset,           \* the argument of the running grouping_func call
    passes,            \* calls of grouping_func so far
    grouped,           \* local `grouped`: what the outermost call returned
    annot_rects,       \* local `annot_rects`: the rectangles returned
    \* DocumentPage.__init__ and load_layers (lines 36-99, 167-204)
    src_rm,            \* the names under which the source holds the stroke file
    file_version,      \* what lines.getVersion reads in the stroke file
    src_meta,          \* the layer names of the page's metadata file, if any
    src_pagedata,      \* the lines of the .pagedata file, if any
    src_highlights,    \* <<>> with no highlights, or <<what readHighlights returns>>
    src_layers,        \* the stroke lists decoded from the stroke file
    num,               \* self.num
    pg_pc,             \* "idle" | "open" | "template" | "load" | "done" | "raised"
    pg_error,          \* the exception that left __init__, "" for none
    rmpath,            \* self.rmpath: "uuid" or "num"
    version,           \* self.version
    template_name,     \* parameter and local `template_name`
    template,          \* self.template: <<>> for None, <<name>>
    self_layers,       \* self.layers
    \* DocumentPage.render_to_painter and DocumentPageLayer.paint_strokes
    \* (lines 206-245, 338-366)
    rd_layers,         \* the stroke lists of self.layers, in order
    rd_template,       \* whether self.template is set
    vector,            \* parameter `vector`
    template_alpha,    \* parameter `template_alpha`, in tenths
    caller,            \* who called paint_strokes: "render" or "direct"
    rd_pc,             \* "idle" | "template" | "frame" | "layers" | "paint" | "done" | "raised"
    rd_error,          \* the exception that left the call, "" for none
    rd_li,             \* index of the layer of `for layer in self.layers`
    pt_i,              \* index of the stroke of `for stroke in self.strokes`
    pencolor,          \* local `pencolor`: <<>> while unbound, <<color>>
    log_entries,       \* what went to the log
    canvas             \* the calls made on the canvas, in order

glVars == <<blocks, gl_pc, gl_i, layers, current_layer, current_strokes, gl_result>>
clVars == <<annot_paths, cl_pc, pathset, passes, grouped, annot_rects>>
pgSource == <<src_rm, file_version, src_meta, src_pagedata, src_highlights, src_layers, num>>
pgVars == <<pgSource, pg_pc, pg_error, rmpath, version, template_name, template, self_layers>>

rdInput == <<rd_layers, rd_template, vector, template_alpha, caller>>
rdVars == <<rdInput, rd_pc, rd_error, rd_li, pt_i, pencolor, log_entries, canvas>>

vars == <<glVars, clVars, pgVars, rdVars>>

\* What the steps of one part leave alone: the variables of the other parts.
notGl == <<clVars, pgVars, rdVars>>
notCl == <<glVars, pgVars, rdVars>>
notPg == <<glVars, clVars, rdVars>>
notRd == <<glVars, clVars, pgVars>>

(***************************************************************************)
(* Bounds                                                                  *)
(***************************************************************************)
MaxBlocks == 4
MaxShapes == 4
\* The depth to which grouping_func may call itself (Python's recursion limit
\* stands far above it); more than a clustering of MaxShapes shapes takes.
MaxCalls == 8
MaxLayers == 3
MaxPageNum == 2
MaxTemplateNames == 2
MaxStrokes == 2

(***************************************************************************)
(* Helpers                                                                 *)
(***************************************************************************)
\* The sequences over S of length at most n.
SeqsUpTo(S, n) == UNION {[1..k -> S] : k \in 0..n}

(***************************************************************************)
(* DocumentPage.get_layers                                                 *)
(***************************************************************************)

\* rmscene Point samples of the stream (device space).
Points ==
    { [x |-> 0, y |-> 0, speed |-> 1, direction |-> 2, width |-> 4, pressure |-> 3] }

\* to_segment (lines 117-126).  x and y are kept in tenths of a unit and the
\* width in quarters, so that 0.7 * x + 1404 / 2.0 - 40 and width / 4.0 stay
\* integers: x10 = 7 * x + 10 * (702 - 40), y10 = 7 * y, width4 = width.
to_segment(point) ==
    [x10 |-> 7 * point.x + 10 * (702 - 40),
     y10 |-> 7 * point.y,
     speed |-> point.speed,
     direction |-> point.direction,
     width4 |-> point.width,
     pressure |-> point.pressure]

\* list(map(to_segment, points)) (line 148).
RECURSIVE ToSegments(_)
ToSegments(points) ==
    IF points = <<>> THEN <<>>
    ELSE <<to_segment(Head(points))>> \o ToSegments(Tail(points))

\* block.item.value of a SceneLineItemBlock: a line with one point and a line
\* whose point list is empty.
LineValues ==
    { [color |-> 0, tool |-> 2, points |-> <<CHOOSE p \in Points : TRUE>>,
       thickness_scale |-> 2],
      [color |-> 3, tool |-> 5, points |-> <<>>, thickness_scale |-> 1] }

\* The labels group blocks carry; the empty string is a legal label.
Labels == {"", "A", "B"}

\* A block: a SceneLineItemBlock whose value is None (<<>>) or a line (<<v>>),
\* a TreeNodeBlock with its group label, or a block of any other class.
LineItemBlock(v) == [kind |-> "SceneLineItemBlock", value |-> v, label |-> ""]
TreeNodeBlock(l) == [kind |-> "TreeNodeBlock", value |-> <<>>, label |-> l]
OtherBlock == [kind |-> "Other", value |-> <<>>, label |-> ""]

BlockKinds ==
    {LineItemBlock(<<>>)} \cup {LineItemBlock(<<v>>) : v \in LineValues}
        \cup {TreeNodeBlock(l) : l \in Labels} \cup {OtherBlock}

\* Stroke(tool, color, None, thickness_scale, None, segments) (line 149).
Stroke(tool, color, thickness_scale, segments) ==
    [pen |-> tool, color |-> color, unk1 |-> "None", width |-> thickness_scale,
     unk2 |-> "None", segments |-> segments]

\* Layer(strokes, name) (lines 156, 162).
Layer(strokes, name) == [strokes |-> strokes, name |-> name]

\* `return layers` instead of `return layers[1:]`.
GetLayersResultKeepFirst(ls) == ls

\* layers[1:] (line 165).
GetLayersResult(ls) == IF ls = <<>> THEN <<>> ELSE Tail(ls)

GetLayersIdle ==
    /\ blocks = <<>>
    /\ gl_pc = "idle"
    /\ gl_i = 0
    /\ layers = <<>>
    /\ current_layer = ""
    /\ current_strokes = <<>>
    /\ gl_result = <<>>

\* Lines 115-130: the state of get_layers before the first block.
GetLayersStart ==
    /\ blocks \in SeqsUpTo(BlockKinds, MaxBlocks)
    /\ gl_pc = "scan"
    /\ gl_i = 1
    /\ layers = <<>>
    /\ current_layer = ""
    /\ current_strokes = <<>>
    /\ gl_result = <<>>

\* Lines 133-150: a line item; a None value is skipped, any other is appended.
ScanLineItem ==
    /\ gl_pc = "scan"
    /\ gl_i <= Len(blocks)
    /\ blocks[gl_i].kind = "SceneLineItemBlock"
    /\ \/ /\ blocks[gl_i].value = <<>>
          /\ UNCHANGED current_strokes
       \/ /\ blocks[gl_i].value # <<>>
          /\ LET v == blocks[gl_i].value[1]
                 segments == ToSegments(v.points)
             IN current_strokes' =
                    Append(current_strokes,
                           Stroke(v.tool, v.color, v.thickness_scale, segments))
    /\ gl_i' = gl_i + 1
    /\ UNCHANGED <<blocks, gl_pc, layers, current_layer, gl_result>>
    /\ UNCHANGED notGl

\* Lines 152-158 with the sealed layer named by the label of the block.
ScanTreeNodeNewLabel ==
    /\ gl_pc = "scan"
    /\ gl_i <= Len(blocks)
    /\ blocks[gl_i].kind = "TreeNodeBlock"
    /\ \/ /\ current_layer = blocks[gl_i].label
          /\ UNCHANGED <<layers, current_layer, current_strokes>>
       \/ /\ current_layer # blocks[gl_i].label
          /\ layers' = Append(layers, Layer(current_strokes, blocks[gl_i].label))
          /\ current_layer' = blocks[gl_i].label
          /\ current_strokes' = <<>>
    /\ gl_i' = gl_i + 1
    /\ UNCHANGED <<blocks, gl_pc, gl_result>>
    /\ UNCHANGED notGl

\* Lines 152-158: a group block; the same label is skipped, another label
\* seals the accumulator under the previous label.
ScanTreeNode ==
    /\ gl_pc = "scan"
    /\ gl_i <= Len(blocks)
    /\ blocks[gl_i].kind = "TreeNodeBlock"
    /\ \/ /\ current_layer = blocks[gl_i].label
          /\ UNCHANGED <<layers, current_layer, current_strokes>>
       \/ /\ current_layer # blocks[gl_i].label
          /\ layers' = Append(layers, Layer(current_strokes, current_layer))
          /\ current_layer' = blocks[gl_i].label
          /\ current_strokes' = <<>>
    /\ gl_i' = gl_i + 1
    /\ UNCHANGED <<blocks, gl_pc, gl_result>>
    /\ UNCHANGED notGl

\* Lines 159-160 with the accumulator emptied by the skipped block.
ScanOtherDropsStrokes ==
    /\ gl_pc = "scan"
    /\ gl_i <= Len(blocks)
    /\ blocks[gl_i].kind = "Other"
    /\ gl_i' = gl_i + 1
    /\ current_strokes' = <<>>
    /\ UNCHANGED <<blocks, gl_pc, layers, current_layer, gl_result>>
    /\ UNCHANGED notGl

\* Lines 159-160: any other block is reported and skipped.
ScanOther ==
    /\ gl_pc = "scan"
    /\ gl_i <= Len(blocks)
    /\ blocks[gl_i].kind = "Other"
    /\ gl_i' = gl_i + 1
    /\ UNCHANGED <<blocks, gl_pc, layers, current_layer, current_strokes, gl_result>>
    /\ UNCHANGED notGl

\* Lines 162-165: the final accumulator is sealed, the first layer dropped.
GetLayersReturn ==
    /\ gl_pc = "scan"
    /\ gl_i = Len(blocks) + 1
    /\ layers' = Append(layers, Layer(current_strokes, current_layer))
    /\ current_strokes' = <<>>
    /\ gl_result' = GetLayersResult(layers')
    /\ gl_pc' = "done"
    /\ UNCHANGED <<blocks, gl_i, current_layer>>
    /\ UNCHANGED notGl

\* The loop of lines 132-160 as a function: the layers sealed, the current
\* label cur and the accumulator acc after the blocks of s.
RECURSIVE ScanBlocks(_, _, _, _)
ScanBlocks(s, ls, cur, acc) ==
    IF s = <<>> THEN [layers |-> ls, current_layer |-> cur, current_strokes |-> acc]
    ELSE LET block == Head(s)
         IN IF block.kind = "SceneLineItemBlock"
            THEN IF block.value = <<>>
                 THEN ScanBlocks(Tail(s), ls, cur, acc)
                 ELSE LET v == block.value[1]
                      IN ScanBlocks(Tail(s), ls, cur,
                                    Append(acc, Stroke(v.tool, v.color, v.thickness_scale,
                                                       ToSegments(v.points))))
            ELSE IF block.kind = "TreeNodeBlock"
                 THEN IF cur = block.label
                      THEN ScanBlocks(Tail(s), ls, cur, acc)
                      ELSE ScanBlocks(Tail(s), Append(ls, Layer(acc, cur)), block.label, <<>>)
                 ELSE ScanBlocks(Tail(s), ls, cur, acc)

\* get_layers (lines 128-165) as a function of the block stream.
get_layers(s) ==
    LET end == ScanBlocks(s, <<>>, "", <<>>)
    IN GetLayersResult(Append(end.layers, Layer(end.current_strokes, end.current_layer)))

GetLayersNext == ScanLineItem \/ ScanTreeNode \/ ScanOther \/ GetLayersReturn

(***************************************************************************)
(* DocumentPageLayer.get_grouped_annotations: grouping_func                *)
(***************************************************************************)

\* A geometry is the set of the grid cells it covers, a cell being a square
\* of side 1/2; UnitSquare(x, y) is the unit square whose lower corner is at
\* (x / 2, y / 2).
UnitSquare(x, y) == {<<x, y>>, <<x + 1, y>>, <<x, y + 1>>, <<x + 1, y + 1>>}

\* A path along two sides of the square from (0, 0) to (3, 3).
Angle ==
    {<<0, 0>>, <<0, 1>>, <<0, 2>>, <<0, 3>>, <<1, 3>>, <<2, 3>>, <<3, 3>>}

Geometries ==
    {UnitSquare(0, 0), UnitSquare(1, 1), UnitSquare(2, 2), UnitSquare(10, 10), Angle}

AnnotTypes == {"Highlight", "Underline"}

\* An entry of annot_paths: (annotype, path).
Shapes == [annotype : AnnotTypes, path : Geometries]

\* path.intersects(group) (line 304).
Intersects(path, group) == path \cap group # {}

\* group.united(path) (line 306).
United(group, path) == group \cup path

\* A shape that fits a group is appended all the same.
PlaceShapeAlwaysAppend(newset, p) == Append(newset, p)

\* Lines 295-311 without the test of line 301: a shape joins the first group
\* it intersects, of whatever type.
PlaceShapeAnyKind(newset, p) ==
    LET fits == {i \in 1..Len(newset) : Intersects(p.path, newset[i].path)}
    IN IF fits = {}
       THEN Append(newset, p)
       ELSE LET i == CHOOSE k \in fits : \A m \in fits : k <= m
            IN [newset EXCEPT ![i] =
                    [annotype |-> p.annotype, path |-> United(newset[i].path, p.path)]]

\* Lines 295-311: one shape of the pass.  The first group of the same type
\* that the shape intersects takes it in; with none, the shape is appended.
PlaceShape(newset, p) ==
    LET fits == {i \in 1..Len(newset) :
                    /\ newset[i].annotype = p.annotype
                    /\ Intersects(p.path, newset[i].path)}
    IN IF fits = {}
       THEN Append(newset, p)
       ELSE LET i == CHOOSE k \in fits : \A m \in fits : k <= m
            IN [newset EXCEPT ![i] =
                    [annotype |-> p.annotype, path |-> United(newset[i].path, p.path)]]

\* Lines 292-311: one pass over pathset, building newset.
RECURSIVE GroupingPassFrom(_, _)
GroupingPassFrom(newset, rest) ==
    IF rest = <<>> THEN newset
    ELSE GroupingPassFrom(PlaceShape(newset, Head(rest)), Tail(rest))

GroupingPass(ps) == GroupingPassFrom(<<>>, ps)

\* The test of line 313 always taken: recurse after every pass.
PassChangedAlways(newset, ps) == TRUE

\* The test of line 313 never taken: return after the first pass.
PassChangedNever(newset, ps) == FALSE

\* len(newset) != len(pathset) (line 313).
PassChanged(newset, ps) == Len(newset) # Len(ps)

\* grouping_func as a function: the list it returns and the calls it took.
RECURSIVE grouping_func(_, _)
grouping_func(ps, calls) ==
    LET newset == GroupingPass(ps)
    IN IF PassChanged(newset, ps) /\ calls < MaxCalls
       THEN grouping_func(newset, calls + 1)
       ELSE [newset |-> newset, calls |-> calls]

\* The least and the greatest member of a finite set of integers.
Least(S) == CHOOSE m \in S : \A n \in S : m <= n
Greatest(S) == CHOOSE m \in S : \A n \in S : n <= m

\* path.boundingRect() (line 328): x(), y(), width(), height().
BoundingRect(path) ==
    LET xs == {pt[1] : pt \in path}
        ys == {pt[2] : pt \in path}
    IN [x |-> Least(xs), y |-> Least(ys),
        width |-> Greatest(xs) - Least(xs), height |-> Greatest(ys) - Least(ys)]

\* The far corner taken as (width, height) instead of (x + width, y + height).
AnnotOfSizeOnly(p) ==
    LET rect == BoundingRect(p.path)
    IN <<p.annotype, rect.x, rect.y, rect.width, rect.height>>

\* Lines 326-333: (annotype, x, y, x + width, y + height) of a group; float()
\* of a coordinate keeps its value.
AnnotOf(p) ==
    LET rect == BoundingRect(p.path)
    IN <<p.annotype, rect.x, rect.y, rect.x + rect.width, rect.y + rect.height>>

\* Lines 324-334: the rectangle of every group, in the order of the groups.
AnnotRects(gs) == [i \in 1..Len(gs) |-> AnnotOf(gs[i])]

GroupingIdle ==
    /\ annot_paths = <<>>
    /\ cl_pc = "idle"
    /\ pathset = <<>>
    /\ passes = 0
    /\ grouped = <<>>
    /\ annot_rects = <<>>

\* Line 320: grouping_func is called with the layer's annot_paths.
GroupingStart ==
    /\ annot_paths \in SeqsUpTo(Shapes, MaxShapes)
    /\ cl_pc = "run"
    /\ pathset = annot_paths
    /\ passes = 0
    /\ grouped = <<>>
    /\ annot_rects = <<>>

\* Lines 292-315: a pass that merged something; grouping_func calls itself.
GroupingRecurse ==
    /\ cl_pc = "run"
    /\ passes < MaxCalls
    /\ LET newset == GroupingPass(pathset)
       IN /\ PassChanged(newset, pathset)
          /\ pathset' = newset
    /\ passes' = passes + 1
    /\ UNCHANGED <<annot_paths, cl_pc, grouped, annot_rects>>
    /\ UNCHANGED notCl

\* Lines 292-311, 316-336: a pass that merged nothing; newset is returned
\* through every pending call and becomes `grouped`, and the rectangles of
\* the groups are returned.
GroupingReturn ==
    /\ cl_pc = "run"
    /\ LET newset == GroupingPass(pathset)
       IN /\ ~PassChanged(newset, pathset)
          /\ pathset' = newset
          /\ grouped' = newset
          /\ annot_rects' = AnnotRects(newset)
    /\ passes' = passes + 1
    /\ cl_pc' = "done"
    /\ UNCHANGED annot_paths
    /\ UNCHANGED notCl

GroupingNext == GroupingRecurse \/ GroupingReturn

(***************************************************************************)
(* DocumentPage.__init__ and DocumentPage.load_layers                      *)
(***************************************************************************)

\* The stroke lists of the layers of a stroke file, and those of the layers
\* readHighlights returns: the strokes of the two come from different pens.
PrimaryStrokeLists ==
    {<<>>, <<Stroke(2, 0, 2, <<>>)>>, <<Stroke(2, 0, 2, <<>>), Stroke(4, 1, 2, <<>>)>>}

HighlightStrokeLists ==
    {<<>>, <<Stroke(5, 3, 1, <<>>)>>, <<Stroke(5, 4, 1, <<>>), Stroke(5, 3, 1, <<>>)>>}

\* The labels get_layers gives the layers of a version 6 file, by index.
GroupLabel(i) == <<"A", "B", "C", "D", "E", "F">>[i]

\* 'Layer ' + str(i+1) (line 200), i counting from 0.
DefaultLayerName(i) ==
    <<"Layer 1", "Layer 2", "Layer 3", "Layer 4", "Layer 5", "Layer 6">>[i + 1]

\* The template names of a .pagedata file and the names TEMPLATE_PATH holds
\* an svg file for.
TemplateNames == {"Blank", "Lined", "Ghost"}
TemplateFiles == {"Blank", "Lined"}

\* A value of `template_name`: a string, None, or (line 91) a list of one
\* integer.  NameText is its f-string rendering.
StrName(st) == [t |-> "str", s |-> st, n |-> 0]
NoneName == [t |-> "None", s |-> "", n |-> 0]
ListName(k) == [t |-> "list", s |-> "", n |-> k]

\* template_path.exists() for TEMPLATE_PATH / f'{template_name}.svg'
\* (lines 73-74, 93-94): no file is called None.svg or [k].svg.
TemplatePathExists(name) == name.t = "str" /\ name.s \in TemplateFiles

\* Lines 73-75 and 93-95: the template of a page, <<>> for None.
ResolveTemplate(name) ==
    IF name # StrName("Blank") /\ TemplatePathExists(name) THEN <<name.s>> ELSE <<>>

\* Lines 88-91: the name chosen in template_names for page n (0-based); past
\* the end of the list, the list [min(n, len - 1)] itself.
PickTemplateName(template_names, n) ==
    IF n < Len(template_names)
    THEN StrName(template_names[n + 1])
    ELSE ListName(IF n < Len(template_names) - 1 THEN n ELSE Len(template_names) - 1)

\* A Python value of the list pagelayers: a list of strokes, a Layer tuple
\* (strokes, name), or the 4-tuple two Layer tuples add up to.
PyList(strokes) == [t |-> "list", strokes |-> strokes, name |-> ""]
PyLayer(l) == [t |-> "Layer", strokes |-> l.strokes, name |-> l.name]
PyTuple4 == [t |-> "tuple4", strokes |-> <<>>, name |-> ""]

\* operator.add(a, b) (lines 188-189): lists concatenate, tuples concatenate,
\* a tuple and a list raise TypeError.
PyAdd(a, b) ==
    IF a.t = "list" /\ b.t = "list"
    THEN [err |-> "", val |-> PyList(a.strokes \o b.strokes)]
    ELSE IF a.t # "list" /\ b.t # "list"
         THEN [err |-> "", val |-> PyTuple4]
         ELSE [err |-> "TypeError", val |-> a]

\* map(add, pagelayers, pagelayershlght) stops with the shorter list.
ZipLen(a, b) == IF Len(a) < Len(b) THEN Len(a) ELSE Len(b)

\* list(map(add, pagelayers, pagelayershlght)) (line 189): the first failing
\* add raises.
MergeHighlights(pagelayers, hl) ==
    LET n == ZipLen(pagelayers, hl)
        sums == [i \in 1..n |-> PyAdd(pagelayers[i], hl[i])]
    IN IF \E i \in 1..n : sums[i].err # ""
       THEN [err |-> sums[CHOOSE i \in 1..n : sums[i].err # ""].err, val |-> <<>>]
       ELSE [err |-> "", val |-> [i \in 1..n |-> sums[i].val]]

\* Lines 197-200: self.metadict['layers'][i]['name'], or 'Layer i+1' when
\* that raises (no metadata, or fewer names than layers); i counts from 0.
LegacyLayerName(meta, i) == IF i < Len(meta) THEN meta[i + 1] ELSE DefaultLayerName(i)

\* Lines 192-204 for one element of pagelayers: the DocumentPageLayer made of
\* it, or the error of unpacking it.
LoadLayer(ver, meta, elt, i) ==
    IF ver = 6
    THEN IF elt.t = "Layer"
         THEN [err |-> "", val |-> [name |-> elt.name, strokes |-> elt.strokes]]
         ELSE [err |-> "ValueError", val |-> [name |-> "", strokes |-> <<>>]]
    ELSE [err |-> "", val |-> [name |-> LegacyLayerName(meta, i), strokes |-> elt.strokes]]

\* Lines 174-182: the layers of the stroke file, by get_layers for version 6
\* and by lines.readLines otherwise.
ReadPageLayers(ver, strokelists) ==
    IF ver = 6
    THEN [i \in 1..Len(strokelists) |-> PyLayer(Layer(strokelists[i], GroupLabel(i)))]
    ELSE [i \in 1..Len(strokelists) |-> PyList(strokelists[i])]

\* lines.readHighlights(self.highlightdict) (line 186): one stroke list per
\* layer.
ReadHighlights(hl) == [i \in 1..Len(hl) |-> PyList(hl[i])]

PageIdle ==
    /\ src_rm = {}
    /\ file_version = 0
    /\ src_meta = <<>>
    /\ src_pagedata = <<>>
    /\ src_highlights = <<>>
    /\ src_layers = <<>>
    /\ num = 0
    /\ pg_pc = "idle"
    /\ pg_error = ""
    /\ rmpath = ""
    /\ version = 0
    /\ template_name = NoneName
    /\ template = <<>>
    /\ self_layers = <<>>

\* The object as __init__ finds it, whatever the source holds.
PageNew ==
    /\ pg_pc = "open"
    /\ pg_error = ""
    /\ rmpath = ""
    /\ version = 0
    /\ template = <<>>
    /\ self_layers = <<>>

\* Pages of every layer structure, with and without highlights, whose stroke
\* file is there.
LoadStart ==
    /\ src_rm = {"uuid"}
    /\ file_version \in {5, 6}
    /\ src_meta \in {<<>>, <<"Front">>}
    /\ src_pagedata = <<>>
    /\ src_highlights \in
           {<<>>} \cup {<<hl>> : hl \in SeqsUpTo(HighlightStrokeLists, MaxLayers)}
    /\ src_layers \in SeqsUpTo(PrimaryStrokeLists, MaxLayers)
    /\ num = 0
    /\ template_name = NoneName
    /\ PageNew

\* Pages of every source layout: the stroke file under either name, both or
\* none, every template list and page number.
PageStart ==
    /\ src_rm \in SUBSET {"uuid", "num"}
    /\ file_version \in {5, 6}
    /\ src_meta = <<>>
    /\ src_pagedata \in SeqsUpTo(TemplateNames, MaxTemplateNames)
    /\ src_highlights = <<>>
    /\ src_layers \in {<<>>, <<<<Stroke(2, 0, 2, <<>>)>>>>}
    /\ num \in 0..MaxPageNum
    /\ template_name \in {NoneName} \cup {StrName(t) : t \in TemplateNames}
    /\ PageNew

\* source.open(path) of a file the source does not hold raises.
SourceOpens(path) == path \in src_rm

\* Lines 36-66: the stroke file is looked up under the UUID name, then under
\* the page number, and opened for its version; then the metadata and the
\* highlights are loaded.
PageInitOpen ==
    /\ pg_pc = "open"
    /\ rmpath' = (IF "uuid" \in src_rm THEN "uuid" ELSE "num")
    /\ IF SourceOpens(rmpath')
       THEN /\ version' = file_version
            /\ pg_pc' = "template"
            /\ UNCHANGED pg_error
       ELSE /\ pg_error' = "OpenError"
            /\ pg_pc' = "raised"
            /\ UNCHANGED version
    /\ UNCHANGED <<pgSource, template_name, template, self_layers>>
    /\ UNCHANGED notPg

\* Lines 68-95: the template of the page.
PageInitTemplate ==
    /\ pg_pc = "template"
    /\ IF version = 6
       THEN /\ template' = ResolveTemplate(template_name)
            /\ UNCHANGED template_name
       ELSE IF src_pagedata # <<>>
            THEN /\ template_name' = PickTemplateName(src_pagedata, num)
                 /\ template' = ResolveTemplate(template_name')
            ELSE UNCHANGED <<template_name, template>>
    /\ pg_pc' = "load"
    /\ UNCHANGED <<pgSource, pg_error, rmpath, version, self_layers>>
    /\ UNCHANGED notPg

\* The layers load_layers appends to self.layers before it returns or raises.
LoadedLayers ==
    LET primary == ReadPageLayers(version, src_layers)
        merged == IF src_highlights # <<>>
                  THEN MergeHighlights(primary, ReadHighlights(src_highlights[1]))
                  ELSE [err |-> "", val |-> primary]
        loaded == [i \in 1..Len(merged.val) |->
                      LoadLayer(version, src_meta, merged.val[i], i - 1)]
        bad == {i \in 1..Len(merged.val) : loaded[i].err # ""}
    IN IF merged.err # ""
       THEN [err |-> merged.err, val |-> <<>>]
       ELSE IF bad # {}
            THEN LET k == CHOOSE i \in bad : \A j \in bad : i <= j
                 IN [err |-> loaded[k].err, val |-> [i \in 1..(k - 1) |-> loaded[i].val]]
            ELSE [err |-> "", val |-> [i \in 1..Len(merged.val) |-> loaded[i].val]]

\* Lines 97-99 and 167-204: load_layers.  A stroke file that is not there
\* leaves self.layers empty (lines 170-172); __init__ gets here only with a
\* stroke file it could open.
LoadLayers ==
    /\ pg_pc = "load"
    /\ IF ~SourceOpens(rmpath)
       THEN /\ pg_pc' = "done"
            /\ UNCHANGED <<pg_error, self_layers>>
       ELSE /\ self_layers' = LoadedLayers.val
            /\ pg_error' = LoadedLayers.err
            /\ pg_pc' = (IF LoadedLayers.err = "" THEN "done" ELSE "raised")
    /\ UNCHANGED <<pgSource, rmpath, version, template_name, template>>
    /\ UNCHANGED notPg

PageNext == PageInitOpen \/ PageInitTemplate \/ LoadLayers

(***************************************************************************)
(* DocumentPageLayer.paint_strokes, DocumentPage.render_to_painter         *)
(***************************************************************************)

\* self.colors (lines 256-266) and self.highlight_colors (lines 269-277), by
\* the names of the entries; "none" is (None, None, None).
Colors == <<"black", "grey", "white", "yellow", "green", "magenta", "blue", "red">>

HighlightColors == <<"none", "hl_yellow", "none", "hl_yellow", "hl_green", "hl_pink">>

\* table[k] of a Python list: k counts from 0, a negative k from the end; any
\* other k raises IndexError.
PyIndex(table, k) ==
    IF 0 <= k /\ k < Len(table) THEN [err |-> "", val |-> table[k + 1]]
    ELSE IF k < 0 /\ -k <= Len(table) THEN [err |-> "", val |-> table[Len(table) + k + 1]]
         ELSE [err |-> "IndexError", val |-> ""]

\* pens.PEN_MAPPING.get(pen) (line 342): the pen class of a code, "None"
\* for a code the mapping does not hold.
PenMapping(pen) ==
    IF pen = 2 THEN "BallpointPen"
    ELSE IF pen = 4 THEN "FinelinerPen"
         ELSE IF pen = 5 THEN "HighlighterPen" ELSE "None"

PenCodes == {2, 5, 99}
ColorCodes == {-9, -7, -1, 0, 1, 6, 8}

\* The strokes paint_strokes is checked on: every pen code with every color
\* code.
PaintStrokes == {Stroke(pn, c, 2, <<>>) : pn \in PenCodes, c \in ColorCodes}

\* The stroke lists of the layers render_to_painter is checked on: strokes
\* that paint, a stroke of an unknown pen, a stroke of a color out of range.
GoodStroke == Stroke(2, 0, 2, <<>>)
UnknownPenStroke == Stroke(99, 0, 2, <<>>)
BadColorStroke == Stroke(2, 8, 2, <<>>)

RenderStrokeLists ==
    {<<>>, <<GoodStroke>>, <<GoodStroke, GoodStroke>>, <<UnknownPenStroke>>,
     <<GoodStroke, UnknownPenStroke>>, <<GoodStroke, BadColorStroke>>}

\* A call on the canvas; a paint_stroke call carries the layer and stroke it
\* paints, the pen class and the color.
Call(op) == [op |-> op, li |-> 0, si |-> 0, cls |-> "", color |-> ""]
PaintCall(li, si, cls, color) ==
    [op |-> "paint_stroke", li |-> li, si |-> si, cls |-> cls, color |-> color]

\* Lines 208-218: the calls of the template phase.
TemplateCalls(has_template, alpha) ==
    IF has_template /\ alpha > 0
    THEN <<Call("draw")>> \o
         (IF alpha < 10
          THEN <<Call("saveState"), Call("setFillColorRGB"), Call("setFillAlpha"),
                 Call("rect"), Call("restoreState")>>
          ELSE <<>>)
    ELSE <<>>

\* Lines 340-356: the dispatch of one stroke, `bound` being pencolor as the
\* earlier strokes of the call left it.  An unknown pen is logged and takes
\* GenericPen, and assigns no pencolor; reading pencolor while it is unbound
\* raises UnboundLocalError.
Dispatch(stroke, bound) ==
    LET penclass == PenMapping(stroke.pen)
        looked == IF penclass = "HighlighterPen"
                  THEN PyIndex(HighlightColors, stroke.color)
                  ELSE PyIndex(Colors, stroke.color)
    IN IF penclass = "None"
       THEN [err |-> IF bound = <<>> THEN "UnboundLocalError" ELSE "",
             logged |-> TRUE, cls |-> "GenericPen", color |-> bound]
       ELSE IF looked.err # ""
            THEN [err |-> looked.err, logged |-> FALSE, cls |-> penclass, color |-> bound]
            ELSE [err |-> "", logged |-> FALSE, cls |-> penclass, color |-> <<looked.val>>]

RenderIdle ==
    /\ rd_layers = <<>>
    /\ rd_template = FALSE
    /\ vector = FALSE
    /\ template_alpha = 0
    /\ caller = ""
    /\ rd_pc = "idle"
    /\ rd_error = ""
    /\ rd_li = 0
    /\ pt_i = 0
    /\ pencolor = <<>>
    /\ log_entries = <<>>
    /\ canvas = <<>>

\* paint_strokes called on one layer, with every list of strokes.
PaintStart ==
    /\ rd_layers \in {<<sl>> : sl \in SeqsUpTo(PaintStrokes, MaxStrokes)}
    /\ rd_template = FALSE
    /\ vector = TRUE
    /\ template_alpha = 10
    /\ caller = "direct"
    /\ rd_pc = "paint"
    /\ rd_error = ""
    /\ rd_li = 1
    /\ pt_i = 1
    /\ pencolor = <<>>
    /\ log_entries = <<>>
    /\ canvas = <<>>

\* render_to_painter called on a page, with every list of layers, with and
\* without a template, opaque, translucent or hidden, vector or not.
RenderStart ==
    /\ rd_layers \in SeqsUpTo(RenderStrokeLists, MaxLayers)
    /\ rd_template \in BOOLEAN
    /\ vector \in BOOLEAN
    /\ template_alpha \in {0, 5, 10}
    /\ caller = "render"
    /\ rd_pc = "template"
    /\ rd_error = ""
    /\ rd_li = 0
    /\ pt_i = 0
    /\ pencolor = <<>>
    /\ log_entries = <<>>
    /\ canvas = <<>>

\* Lines 208-226: the template and, over a translucent one, the white
\* rectangle.
RenderTemplate ==
    /\ rd_pc = "template"
    /\ canvas' = canvas \o TemplateCalls(rd_template, template_alpha)
    /\ rd_pc' = "frame"
    /\ UNCHANGED <<rdInput, rd_error, rd_li, pt_i, pencolor, log_entries>>
    /\ UNCHANGED notRd

\* Lines 232-233: canvas.translate, canvas.scale.
RenderFrame ==
    /\ rd_pc = "frame"
    /\ canvas' = canvas \o <<Call("translate"), Call("scale")>>
    /\ rd_li' = 1
    /\ rd_pc' = "layers"
    /\ UNCHANGED <<rdInput, rd_error, pt_i, pencolor, log_entries>>
    /\ UNCHANGED notRd

\* Lines 235-244 and 361-366: the next layer's render_to_painter, which calls
\* paint_strokes when vector is set and fails its assertion otherwise.
RenderLayer ==
    /\ rd_pc = "layers"
    /\ rd_li <= Len(rd_layers)
    /\ IF vector
       THEN /\ pt_i' = 1
            /\ pencolor' = <<>>
            /\ rd_pc' = "paint"
            /\ UNCHANGED rd_error
       ELSE /\ rd_error' = "AssertionError"
            /\ rd_pc' = "raised"
            /\ UNCHANGED <<pt_i, pencolor>>
    /\ UNCHANGED <<rdInput, rd_li, log_entries, canvas>>
    /\ UNCHANGED notRd

\* Lines 340-359 with the paint call made before the lookup error surfaces.
PaintStrokePaintsThenRaises ==
    /\ rd_pc = "paint"
    /\ pt_i <= Len(rd_layers[rd_li])
    /\ LET stroke == rd_layers[rd_li][pt_i]
           d == Dispatch(stroke, pencolor)
       IN /\ log_entries' = IF d.logged THEN Append(log_entries, [li |-> rd_li, si |-> pt_i]) ELSE log_entries
          /\ pencolor' = d.color
          /\ canvas' = Append(canvas, PaintCall(rd_li, pt_i, d.cls,
                                       IF d.color = <<>> THEN "none" ELSE d.color[1]))
          /\ IF d.err = ""
             THEN /\ pt_i' = pt_i + 1
                  /\ UNCHANGED <<rd_pc, rd_error>>
             ELSE /\ rd_error' = d.err
                  /\ rd_pc' = "raised"
                  /\ UNCHANGED pt_i
    /\ UNCHANGED <<rdInput, rd_li>>
    /\ UNCHANGED notRd

\* Lines 339-359: one stroke of paint_strokes.
PaintStroke ==
    /\ rd_pc = "paint"
    /\ pt_i <= Len(rd_layers[rd_li])
    /\ LET stroke == rd_layers[rd_li][pt_i]
           d == Dispatch(stroke, pencolor)
       IN /\ log_entries' = IF d.logged THEN Append(log_entries, [li |-> rd_li, si |-> pt_i])
                            ELSE log_entries
          /\ pencolor' = d.color
          /\ IF d.err = ""
             THEN /\ canvas' = Append(canvas, PaintCall(rd_li, pt_i, d.cls, d.color[1]))
                  /\ pt_i' = pt_i + 1
                  /\ UNCHANGED <<rd_pc, rd_error>>
             ELSE /\ rd_error' = d.err
                  /\ rd_pc' = "raised"
                  /\ UNCHANGED <<canvas, pt_i>>
    /\ UNCHANGED <<rdInput, rd_li>>
    /\ UNCHANGED notRd

\* Line 359 after the last stroke, lines 363-364: paint_strokes returns, and
\* with it the layer's render_to_painter.
PaintReturn ==
    /\ rd_pc = "paint"
    /\ pt_i = Len(rd_layers[rd_li]) + 1
    /\ IF caller = "render"
       THEN /\ rd_li' = rd_li + 1
            /\ rd_pc' = "layers"
       ELSE /\ rd_pc' = "done"
            /\ UNCHANGED rd_li
    /\ UNCHANGED <<rdInput, rd_error, pt_i, pencolor, log_entries, canvas>>
    /\ UNCHANGED notRd

\* canvas.showPage() is left out.
FinalizeCallsNone == <<>>

\* Line 245: canvas.showPage().
FinalizeCalls == <<Call("showPage")>>

\* Line 245, after the last layer.
RenderShowPage ==
    /\ rd_pc = "layers"
    /\ rd_li = Len(rd_layers) + 1
    /\ canvas' = canvas \o FinalizeCalls
    /\ rd_pc' = "done"
    /\ UNCHANGED <<rdInput, rd_error, rd_li, pt_i, pencolor, log_entries>>
    /\ UNCHANGED notRd

PaintNext == PaintStroke \/ PaintReturn

RenderNext ==
    RenderTemplate \/ RenderFrame \/ RenderLayer \/ PaintStroke \/ PaintReturn
        \/ RenderShowPage

(***************************************************************************)
(* Specifications                                                          *)
(***************************************************************************)
GetLayersInit == GetLayersStart /\ GroupingIdle /\ PageIdle /\ RenderIdle

SpecLayers == GetLayersInit /\ [][GetLayersNext]_vars

GroupingInit == GroupingStart /\ GetLayersIdle /\ PageIdle /\ RenderIdle

SpecCluster == GroupingInit /\ [][GroupingNext]_vars

LoadInit == LoadStart /\ GetLayersIdle /\ GroupingIdle /\ RenderIdle

SpecLoad == LoadInit /\ [][PageNext]_vars

PageInit == PageStart /\ GetLayersIdle /\ GroupingIdle /\ RenderIdle

SpecPage == PageInit /\ [][PageNext]_vars

PaintInit == PaintStart /\ GetLayersIdle /\ GroupingIdle /\ PageIdle

SpecPaint == PaintInit /\ [][PaintNext]_vars

RenderInit == RenderStart /\ GetLayersIdle /\ GroupingIdle /\ PageIdle

SpecRender == RenderInit /\ [][RenderNext]_vars

\* Every part, each from its own start.
Init == GetLayersInit \/ GroupingInit \/ LoadInit \/ PageInit \/ PaintInit \/ RenderInit

Next == GetLayersNext \/ GroupingNext \/ PageNext \/ RenderNext

Spec == Init /\ [][Next]_vars

(***************************************************************************)
(* Claims about get_layers                                                 *)
(***************************************************************************)

\* The number of group blocks of stream s whose label differs from the label
\* that is current when the block is scanned, the current label being cur
\* before the first block.
RECURSIVE LabelTransitions(_, _)
LabelTransitions(s, cur) ==
    IF s = <<>> THEN 0
    ELSE IF Head(s).kind = "TreeNodeBlock" /\ Head(s).label # cur
         THEN 1 + LabelTransitions(Tail(s), Head(s).label)
         ELSE LabelTransitions(Tail(s), cur)

\* C1: for every block stream, get_layers returns exactly as many layers as
\* the stream has group-label transitions (the pre-layer is not counted).
C1_LayerCount ==
    gl_pc = "done" => Len(gl_result) = LabelTransitions(blocks, "")

\* A stream with two transitions and a repeated label has returned two layers.
C1_Witness ==
    /\ gl_pc = "done"
    /\ LabelTransitions(blocks, "") = 2
    /\ \E i \in 1..(Len(blocks) - 1) :
          /\ blocks[i].kind = "TreeNodeBlock"
          /\ blocks[i + 1] = blocks[i]
    /\ Len(gl_result) = 2

\* The positions, from i on, of the group blocks of s whose label differs
\* from the label current when they are scanned, cur being current at i.
RECURSIVE TransitionPositions(_, _, _)
TransitionPositions(s, i, cur) ==
    IF i > Len(s) THEN <<>>
    ELSE IF s[i].kind = "TreeNodeBlock" /\ s[i].label # cur
         THEN <<i>> \o TransitionPositions(s, i + 1, s[i].label)
         ELSE TransitionPositions(s, i + 1, cur)

\* A line item with a value.
HasLine(block) == block.kind = "SceneLineItemBlock" /\ block.value # <<>>

\* The stroke line 149 builds of a line item.
StrokeOf(block) ==
    LET v == block.value[1]
    IN Stroke(v.tool, v.color, v.thickness_scale, ToSegments(v.points))

\* The strokes of the line items with a value at the positions a..b of s, in
\* stream order.
RECURSIVE StrokesBetween(_, _, _)
StrokesBetween(s, a, b) ==
    IF a > b THEN <<>>
    ELSE (IF HasLine(s[a]) THEN <<StrokeOf(s[a])>> ELSE <<>>) \o StrokesBetween(s, a + 1, b)

\* The strokes of the layers ls, layer after layer.
RECURSIVE StrokesOfLayers(_)
StrokesOfLayers(ls) ==
    IF ls = <<>> THEN <<>> ELSE Head(ls).strokes \o StrokesOfLayers(Tail(ls))

\* C14: the k-th returned layer is named with the label of the k-th
\* label-changing group block and holds exactly the strokes of the line items
\* with a value between that block and the next label-changing group block
\* (or the end of the stream), in stream order.
C14_SealedLayers ==
    gl_pc = "done" =>
        LET tp == TransitionPositions(blocks, 1, "")
        IN /\ Len(gl_result) = Len(tp)
           /\ \A k \in 1..Len(tp) :
                 /\ gl_result[k].name = blocks[tp[k]].label
                 /\ gl_result[k].strokes =
                        StrokesBetween(blocks, tp[k] + 1,
                                       IF k < Len(tp) THEN tp[k + 1] - 1 ELSE Len(blocks))

\* Two layers of different labels, each with a stroke, have been returned.
C14_Witness ==
    /\ gl_pc = "done"
    /\ Len(gl_result) = 2
    /\ gl_result[1].name = "A"
    /\ gl_result[2].name = "B"
    /\ gl_result[1].strokes # <<>>
    /\ gl_result[2].strokes # <<>>

\* C15: the first sealed layer, which get_layers drops, holds no stroke, and
\* the strokes of the returned layers are exactly the strokes of the line
\* items with a value of the stream.
C15_PreLayerEmpty ==
    gl_pc = "done" =>
        /\ layers[1].strokes = <<>>
        /\ StrokesOfLayers(gl_result) = StrokesBetween(blocks, 1, Len(blocks))

\* C16: every stroke of a returned layer has at least one segment.
C16_SegmentsNonEmpty ==
    gl_pc = "done" =>
        \A k \in 1..Len(gl_result) :
            \A i \in 1..Len(gl_result[k].strokes) :
                gl_result[k].strokes[i].segments # <<>>

\* The stream s without its blocks of unrecognized kinds.
RemoveOther(s) == SelectSeq(s, LAMBDA b : b.kind # "Other")

\* get_layers is about to scan a block of an unrecognized kind.
AtOtherBlock == gl_pc = "scan" /\ gl_i <= Len(blocks) /\ blocks[gl_i].kind = "Other"

\* C17: the step over a block of an unrecognized kind goes on to the next
\* block and leaves the sealed layers, the current label and the accumulator
\* as they are, and the layers get_layers returns are the layers it returns
\* for the stream without its unrecognized blocks.
C17_OtherBlocksSkipped ==
    [][/\ AtOtherBlock =>
              /\ gl_pc' = "scan"
              /\ gl_i' = gl_i + 1
              /\ UNCHANGED <<layers, current_layer, current_strokes>>
       /\ gl_pc' = "done" => gl_result' = get_layers(RemoveOther(blocks'))]_vars

\* An unrecognized block stood between two line items of a returned layer.
C17_Witness ==
    /\ gl_pc = "done"
    /\ \E i \in 2..(Len(blocks) - 1) :
          /\ blocks[i].kind = "Other"
          /\ HasLine(blocks[i - 1])
          /\ HasLine(blocks[i + 1])
    /\ gl_result # <<>>
    /\ Len(gl_result[1].strokes) = 2

(***************************************************************************)
(* Claims about load_layers and the construction of a page                 *)
(***************************************************************************)

\* __init__ has returned or raised.
PageEnded == pg_pc \in {"done", "raised"}

\* C2: with a highlight source whose layer list is as long as the primary
\* one, load_layers produces that many layers, layer i holding the primary
\* strokes of index i followed by the highlight strokes of index i.
C2_MergeConcatenates ==
    (/\ PageEnded
     /\ SourceOpens(rmpath)
     /\ src_highlights # <<>>
     /\ Len(src_highlights[1]) = Len(src_layers))
        => /\ pg_pc = "done"
           /\ Len(self_layers) = Len(src_layers)
           /\ \A i \in 1..Len(src_layers) :
                  self_layers[i].strokes = src_layers[i] \o src_highlights[1][i]

\* C3: with a highlight layer list of another length than the primary one,
\* load_layers ends in an error and returns no merged layer list.
C3_MismatchRaises ==
    (/\ PageEnded
     /\ SourceOpens(rmpath)
     /\ src_highlights # <<>>
     /\ Len(src_highlights[1]) # Len(src_layers))
        => pg_pc = "raised"

\* C10: with the stroke file absent under both names, the construction of the
\* page succeeds and the page has no layers.
C10_MissingStrokeFile ==
    (PageEnded /\ src_rm = {})
        => /\ pg_pc = "done"
           /\ pg_error = ""
           /\ self_layers = <<>>

\* The template phase of __init__ (lines 68-95) is over.
TemplateChosen == pg_pc \in {"load", "done"} \/ (pg_pc = "raised" /\ pg_error # "OpenError")

\* The name at index n of template_names, the index clamped to the last one.
ClampedName(template_names, n) ==
    template_names[IF n < Len(template_names) THEN n + 1 ELSE Len(template_names)]

\* C19: on the legacy path with at least one template name in the page data,
\* the template name of the page is the name at the index of the page number,
\* or the last name of the list when the page number is beyond its end, and
\* the template of the page is the one of that name.
C19_TemplateClamped ==
    (TemplateChosen /\ version # 6 /\ src_pagedata # <<>>)
        => /\ template_name = StrName(ClampedName(src_pagedata, num))
           /\ template = ResolveTemplate(template_name)

(***************************************************************************)
(* Claims about paint_strokes and render_to_painter                        *)
(***************************************************************************)

\* The call has returned or raised.
RenderEnded == rd_pc \in {"done", "raised"}

UnknownPen(stroke) == PenMapping(stroke.pen) = "None"

\* The color lookup of a stroke of a known pen does not raise.
ColorLookupFine(stroke) ==
    \/ UnknownPen(stroke)
    \/ /\ PenMapping(stroke.pen) = "HighlighterPen"
       /\ PyIndex(HighlightColors, stroke.color).err = ""
    \/ /\ PenMapping(stroke.pen) # "HighlighterPen"
       /\ PyIndex(Colors, stroke.color).err = ""

\* C4: a stroke of an unknown pen code, at any position of the stroke list,
\* is painted by the generic renderer, makes exactly one log entry and never
\* makes paint_strokes raise; the strokes after it are painted as well.
C4_UnknownPenFallback ==
    (/\ RenderEnded
     /\ caller = "direct"
     /\ \A k \in 1..Len(rd_layers[1]) : ColorLookupFine(rd_layers[1][k]))
        => /\ rd_pc = "done"
           /\ Len(canvas) = Len(rd_layers[1])
           /\ \A k \in 1..Len(rd_layers[1]) :
                 /\ canvas[k].op = "paint_stroke"
                 /\ canvas[k].si = k
                 /\ UnknownPen(rd_layers[1][k]) =>
                       /\ canvas[k].cls = "GenericPen"
                       /\ Cardinality({e \in 1..Len(log_entries) :
                                          log_entries[e].si = k}) = 1
           /\ \A e \in 1..Len(log_entries) : UnknownPen(rd_layers[1][log_entries[e].si])

\* The color table paint_strokes selects for the renderer of a stroke.
TableOf(stroke) ==
    IF PenMapping(stroke.pen) = "HighlighterPen" THEN HighlightColors ELSE Colors

\* The color code of a stroke is an index of the table of its renderer.
ColorInRange(stroke) == 0 <= stroke.color /\ stroke.color < Len(TableOf(stroke))

\* C11: a stroke of a known pen whose color code is outside the index range
\* of the table of its renderer (negative codes included) ends paint_strokes
\* in a FormatMismatch error; it is not painted, and no other failure occurs.
C11_ColorOutOfRange ==
    \A k \in 1..Len(rd_layers[1]) :
        (/\ RenderEnded
         /\ caller = "direct"
         /\ ~UnknownPen(rd_layers[1][k])
         /\ ~ColorInRange(rd_layers[1][k])
         /\ \A j \in 1..(k - 1) :
               ~UnknownPen(rd_layers[1][j]) /\ ColorInRange(rd_layers[1][j]))
            => /\ rd_pc = "raised"
               /\ rd_error = "FormatMismatch"
               /\ Len(canvas) = k - 1

\* C18: a highlighter takes its color from the highlight table and every
\* other renderer from the standard table, and the color handed to a
\* renderer is never a 'no color' entry, for every painted stroke whose color
\* code is in range.
C18_ColorTables ==
    caller = "direct" =>
        \A c \in 1..Len(canvas) :
            LET stroke == rd_layers[1][canvas[c].si]
            IN IF canvas[c].cls = "HighlighterPen"
               THEN (0 <= stroke.color /\ stroke.color < Len(HighlightColors)) =>
                        /\ canvas[c].color = HighlightColors[stroke.color + 1]
                        /\ canvas[c].color # "none"
               ELSE (0 <= stroke.color /\ stroke.color < Len(Colors)) =>
                        canvas[c].color = Colors[stroke.color + 1]

\* The phase of a canvas call: template 1, translate 2, scale 3, paint 4,
\* showPage 5.
Phase(c) ==
    IF c.op = "translate" THEN 2
    ELSE IF c.op = "scale" THEN 3
         ELSE IF c.op = "paint_stroke" THEN 4
              ELSE IF c.op = "showPage" THEN 5 ELSE 1

CountOp(op) == Cardinality({i \in 1..Len(canvas) : canvas[i].op = op})

\* Every stroke of the page as (layer, stroke) in layer order and, within a
\* layer, stroke order.
RECURSIVE StrokesFrom(_, _)
StrokesFrom(ls, li) ==
    IF li > Len(ls) THEN <<>>
    ELSE [si \in 1..Len(ls[li]) |-> <<li, si>>] \o StrokesFrom(ls, li + 1)

AllStrokes == StrokesFrom(rd_layers, 1)

Paints == SelectSeq(canvas, LAMBDA c : c.op = "paint_stroke")

TemplatePart == SelectSeq(canvas, LAMBDA c : Phase(c) = 1)

\* The calls come in the order of the phases, frame setup and showPage at
\* most once, and the paints are a prefix of the page's strokes in order.
PhasesInOrder ==
    /\ \A i, j \in 1..Len(canvas) : i < j => Phase(canvas[i]) <= Phase(canvas[j])
    /\ CountOp("translate") <= 1
    /\ CountOp("scale") <= 1
    /\ CountOp("showPage") <= 1
    /\ Len(Paints) <= Len(AllStrokes)
    /\ \A k \in 1..Len(Paints) : <<Paints[k].li, Paints[k].si>> = AllStrokes[k]
    /\ Paints # <<>> => CountOp("translate") = 1 /\ CountOp("scale") = 1
    /\ rd_pc \notin {"idle", "template"} =>
           TemplatePart = TemplateCalls(rd_template, template_alpha)
    /\ rd_pc \notin {"idle", "template", "frame"} =>
           CountOp("translate") = 1 /\ CountOp("scale") = 1

\* The calls of a run in which no phase is skipped and every stroke painted.
CompleteRun ==
    /\ Len(Paints) = Len(AllStrokes)
    /\ CountOp("showPage") = 1
    /\ canvas[Len(canvas)].op = "showPage"

\* C9 as stated: every run goes through the four phases in order, none
\* skipped, down to showPage after the last stroke.
C9_EveryRunFinalizes ==
    (RenderEnded /\ caller = "render") => PhasesInOrder /\ CompleteRun /\ rd_pc = "done"

\* C9, amended: in every run the canvas calls come in the order template
\* phase, translate, scale, stroke paints in layer order and stroke order,
\* frame setup being made exactly once; a run that returns has painted every
\* stroke and called showPage exactly once, after the last stroke; a run in
\* which a layer raises has painted only the strokes before the failure and
\* never calls showPage.
C9_PhasesInOrder ==
    caller = "render" =>
        /\ PhasesInOrder
        /\ rd_pc = "done" => CompleteRun
        /\ rd_pc # "done" => CountOp("showPage") = 0
        /\ rd_pc = "raised" =>
              /\ rd_error \in {"AssertionError", "UnboundLocalError", "IndexError"}
              /\ Len(Paints) < Len(AllStrokes) \/ ~vector
              /\ \A k \in 1..Len(Paints) : Paints[k].li <= rd_li

\* A page with a translucent template and two layers of two strokes each has
\* been rendered to the end.
C9_Witness ==
    /\ caller = "render"
    /\ rd_pc = "done"
    /\ rd_template
    /\ template_alpha = 5
    /\ Len(rd_layers) = 2
    /\ \A l \in 1..2 : Len(rd_layers[l]) = 2
    /\ Len(canvas) = 6 + 2 + 4 + 1

\* The number of strokes of the page before stroke si of layer li.
StrokesBefore(li, si) == Len(StrokesFrom(SubSeq(rd_layers, 1, li - 1), 1)) + si - 1

\* The run of render_to_painter ended in an error of a stroke's dispatch.
DispatchRaised ==
    /\ caller = "render"
    /\ rd_pc = "raised"
    /\ rd_error \in {"UnboundLocalError", "IndexError"}

\* C20: when the dispatch of a stroke raises in render_to_painter, exactly the
\* strokes before it have been painted, in order and after the frame setup
\* (translate, then scale); the failing stroke and every later stroke and
\* layer are not painted, showPage is not called, and the run takes no
\* further step.
C20_DispatchErrorStops ==
    DispatchRaised =>
        /\ Len(Paints) = StrokesBefore(rd_li, pt_i)
        /\ Len(Paints) < Len(AllStrokes)
        /\ \A k \in 1..Len(Paints) : <<Paints[k].li, Paints[k].si>> = AllStrokes[k]
        /\ \E t \in 1..(Len(canvas) - 1) :
              /\ canvas[t].op = "translate"
              /\ canvas[t + 1].op = "scale"
              /\ Len(canvas) = t + 1 + Len(Paints)
        /\ CountOp("translate") = 1
        /\ CountOp("scale") = 1
        /\ CountOp("showPage") = 0
        /\ ~ENABLED RenderNext

\* The second stroke of the second layer raised after the strokes before it
\* were painted, with a stroke still to come.
C20_Witness ==
    /\ DispatchRaised
    /\ rd_li = 2
    /\ pt_i = 2
    /\ Len(rd_layers[1]) >= 1
    /\ Len(Paints) = Len(rd_layers[1]) + 1
    /\ Len(AllStrokes) > Len(Paints) + 1

(***************************************************************************)
(* Claims about the clustering                                             *)
(***************************************************************************)

SameKindIntersect(g, h) == g.annotype = h.annotype /\ Intersects(g.path, h.path)

\* C5: when the clustering has converged, no two output groups of the same
\* kind have intersecting geometry.
C5_NoIntersectingGroups ==
    cl_pc = "done" =>
        \A i, j \in 1..Len(grouped) : i # j => ~SameKindIntersect(grouped[i], grouped[j])

\* The clustering merged shapes over at least two passes and left two groups
\* of one kind.
C5_Witness ==
    /\ cl_pc = "done"
    /\ passes >= 3
    /\ \E i, j \in 1..Len(grouped) : i # j /\ grouped[i].annotype = grouped[j].annotype

\* The indices reachable from the set S of indices of shapes by the relation
\* 'same kind and intersecting geometry'.
RECURSIVE Reachable(_, _)
Reachable(shapes, S) ==
    LET T == S \cup {j \in 1..Len(shapes) :
                        \E i \in S : SameKindIntersect(shapes[i], shapes[j])}
    IN IF T = S THEN S ELSE Reachable(shapes, T)

Components(shapes) == {Reachable(shapes, {i}) : i \in 1..Len(shapes)}

ComponentGroup(shapes, c) ==
    [annotype |-> shapes[CHOOSE i \in c : TRUE].annotype,
     path |-> UNION {shapes[i].path : i \in c}]

\* C6: the output groups are exactly the connected components of 'same kind
\* and intersecting geometry' over the input shapes, each group's geometry
\* the union of its members', whatever the order of the shapes.
C6_ConnectedComponents ==
    cl_pc = "done" =>
        /\ Len(grouped) = Cardinality(Components(annot_paths))
        /\ {grouped[i] : i \in 1..Len(grouped)}
               = {ComponentGroup(annot_paths, c) : c \in Components(annot_paths)}

\* The unit squares at (0,0), (0.5,0.5) and (5,5), of one kind, gave two
\* groups: the union of the first two, and the third.
C6_Witness ==
    /\ cl_pc = "done"
    /\ Len(annot_paths) = 3
    /\ \A i \in 1..3 : annot_paths[i].annotype = "Highlight"
    /\ {annot_paths[i].path : i \in 1..3}
           = {UnitSquare(0, 0), UnitSquare(1, 1), UnitSquare(10, 10)}
    /\ Len(grouped) = 2
    /\ {grouped[i].path : i \in 1..2}
           = {UnitSquare(0, 0) \cup UnitSquare(1, 1), UnitSquare(10, 10)}

\* C7: the clustering run on the group list it produced returns the
\* identical list, after exactly one pass.
C7_Idempotent ==
    cl_pc = "done" =>
        /\ grouping_func(grouped, 1) = [newset |-> grouped, calls |-> 1]
        /\ GroupingPass(grouped) = grouped

\* An output of several groups that took merging passes to reach.
C7_Witness ==
    /\ cl_pc = "done"
    /\ passes >= 2
    /\ Len(grouped) >= 2
    /\ grouping_func(grouped, 1).calls = 1

\* C8: the number of groups never increases from one pass to the next, a
\* further pass is started only when the last pass strictly reduced it, and
\* the clustering of n shapes returns within n + 1 passes (fewer than
\* MaxCalls, so that a pass is always followed by a call or by the return).
C8_Terminates ==
    [][/\ Len(pathset') <= Len(pathset)
       /\ (cl_pc' = "run" => Len(pathset') < Len(pathset))
       /\ passes' <= Len(annot_paths) + 1
       /\ passes' < MaxCalls]_vars

\* A clustering that returned after two reducing passes and a last pass.
C8_Witness ==
    /\ cl_pc = "done"
    /\ passes = 3
    /\ Len(grouped) = Len(annot_paths) - 2

\* The geometry of the entries of kind k of the list gs, taken together.
KindUnion(gs, k) == UNION {gs[i].path : i \in {j \in 1..Len(gs) : gs[j].annotype = k}}

\* The input shapes of the kind of group g that lie within g.
MembersOf(g) ==
    {i \in 1..Len(annot_paths) :
        annot_paths[i].annotype = g.annotype /\ annot_paths[i].path \subseteq g.path}

\* C13: after every pass, every group is the union of input shapes of its
\* own kind, every input shape lies whole in a group of its kind, there are
\* no more groups than input shapes, and for every kind the geometry of the
\* groups of that kind is the geometry of the input shapes of that kind.
C13_SameKindUnion ==
    cl_pc \in {"run", "done"} =>
        /\ Len(pathset) <= Len(annot_paths)
        /\ \A k \in AnnotTypes : KindUnion(pathset, k) = KindUnion(annot_paths, k)
        /\ \A i \in 1..Len(pathset) :
              /\ MembersOf(pathset[i]) # {}
              /\ pathset[i].path = UNION {annot_paths[m].path : m \in MembersOf(pathset[i])}
        /\ \A m \in 1..Len(annot_paths) :
              \E i \in 1..Len(pathset) :
                  /\ pathset[i].annotype = annot_paths[m].annotype
                  /\ annot_paths[m].path \subseteq pathset[i].path

\* A pass merged two shapes of one kind and kept a shape of the other kind
\* that intersects the merged group apart, though its geometry is not part
\* of the merged group's input.
C13_Witness ==
    /\ cl_pc = "done"
    /\ Len(grouped) < Len(annot_paths)
    /\ \E i, j \in 1..Len(grouped) :
          /\ grouped[i].annotype # grouped[j].annotype
          /\ Intersects(grouped[i].path, grouped[j].path)
          /\ Cardinality(MembersOf(grouped[i])) >= 2
          /\ ~(grouped[j].path \subseteq grouped[i].path)

\* Two rectangles (annotype, minX, minY, maxX, maxY) share an area.
RectsOverlap(a, b) == a[2] < b[4] /\ b[2] < a[4] /\ a[3] < b[5] /\ b[3] < a[5]

\* The geometry g covers every point of its rectangle r.
FillsRect(g, r) ==
    \A x \in r[2]..r[4] : \A y \in r[3]..r[5] : <<x, y>> \in g.path

\* The rectangle r is the least one that holds the geometry g.
TightRect(g, r) ==
    /\ r[1] = g.annotype
    /\ \A pt \in g.path : r[2] <= pt[1] /\ pt[1] <= r[4] /\ r[3] <= pt[2] /\ pt[2] <= r[5]
    /\ \E pt \in g.path : pt[1] = r[2]
    /\ \E pt \in g.path : pt[1] = r[4]
    /\ \E pt \in g.path : pt[2] = r[3]
    /\ \E pt \in g.path : pt[2] = r[5]

\* C12 as stated: the rectangles returned for two groups of the same kind
\* never overlap.
C12_RectsNeverOverlap ==
    cl_pc = "done" =>
        \A i, j \in 1..Len(annot_rects) :
            (i # j /\ annot_rects[i][1] = annot_rects[j][1])
                => ~RectsOverlap(annot_rects[i], annot_rects[j])

\* C12, amended: get_grouped_annotations returns one rectangle per group, in
\* the order of the groups, each the least rectangle that holds its group's
\* geometry and tagged with its kind; the rectangles of two groups of the
\* same kind overlap only when one of the two geometries does not cover its
\* rectangle.
C12_RectsOfGroups ==
    cl_pc = "done" =>
        /\ Len(annot_rects) = Len(grouped)
        /\ \A i \in 1..Len(grouped) : TightRect(grouped[i], annot_rects[i])
        /\ \A i, j \in 1..Len(grouped) :
              (/\ i # j
               /\ grouped[i].annotype = grouped[j].annotype
               /\ RectsOverlap(annot_rects[i], annot_rects[j]))
                  => \/ ~FillsRect(grouped[i], annot_rects[i])
                     \/ ~FillsRect(grouped[j], annot_rects[j])

\* After a clustering that merged shapes, two groups of one kind whose
\* geometries do not intersect have rectangles that overlap.
C12_Witness ==
    /\ cl_pc = "done"
    /\ Len(grouped) < Len(annot_paths)
    /\ \E i, j \in 1..Len(grouped) :
          /\ i # j
          /\ grouped[i].annotype = grouped[j].annotype
          /\ ~Intersects(grouped[i].path, grouped[j].path)
          /\ RectsOverlap(annot_rects[i], annot_rects[j])

====
